---- MODULE Spec2Model ----
\* autosized_num: procedural macros that select the smallest integer type able
\* to hold an integer literal (src/src/lib.rs).
\*
\* 128-bit integers are kept at full width.  A magnitude is a little-endian
\* sequence of NLimbs limbs of LimbBits bits each; a signed value is a record
\* [neg, mag] with mag = 0 => neg = FALSE.
EXTENDS Integers, Sequences, FiniteSets, TLC

\* ------------------------------------------------------------------ bounds
\* bits per limb of a magnitude
LimbBits ==
    16
\* limbs per magnitude (literals may exceed 128 bits; they are then rejected)
NLimbs ==
    9
\* literals are drawn from 2^k - Delta .. 2^k + Delta around every rung boundary
Delta ==
    2

\* ------------------------------------------------- wide unsigned arithmetic
Base ==
    2 ^ LimbBits

Limbs ==
    1 .. NLimbs

BigOfNat(n) ==
    [i \in Limbs |-> IF i = 1 THEN n ELSE 0]

Zero ==
    BigOfNat(0)

One ==
    BigOfNat(1)

\* 2^k
Pow2(k) ==
    [i \in Limbs |-> IF i - 1 = k \div LimbBits THEN 2 ^ (k % LimbBits) ELSE 0]

\* a + b (the model never adds past NLimbs limbs)
BigAdd(a, b) ==
    LET c[i \in 0 .. NLimbs] ==
            IF i = 0 THEN 0 ELSE (a[i] + b[i] + c[i - 1]) \div Base
    IN  [i \in Limbs |-> (a[i] + b[i] + c[i - 1]) % Base]

\* a - b, for a >= b
BigSub(a, b) ==
    LET w[i \in 0 .. NLimbs] ==
            IF i = 0 THEN 0 ELSE IF a[i] - b[i] - w[i - 1] < 0 THEN 1 ELSE 0
    IN  [i \in Limbs |-> (a[i] - b[i] - w[i - 1] + Base) % Base]

\* a < b: decided by the most significant limb in which they differ
BigLt(a, b) ==
    \E i \in Limbs :
        /\ a[i] < b[i]
        /\ \A j \in Limbs : j > i => a[j] = b[j]

BigLeq(a, b) ==
    a = b \/ BigLt(a, b)

\* a mod 2^w: the low w bits of a
BigLowBits(a, w) ==
    [i \in Limbs |->
        IF i * LimbBits <= w THEN a[i]
        ELSE IF (i - 1) * LimbBits >= w THEN 0
        ELSE a[i] % (2 ^ (w - (i - 1) * LimbBits))]

\* --------------------------------------------------- wide signed arithmetic
SInt(neg, mag) ==
    [neg |-> neg /\ mag # Zero, mag |-> mag]

SLt(x, y) ==
    IF x.neg
    THEN IF y.neg THEN BigLt(y.mag, x.mag) ELSE TRUE
    ELSE IF y.neg THEN FALSE ELSE BigLt(x.mag, y.mag)

SLeq(x, y) ==
    x = y \/ SLt(x, y)

\* -------------------------------------------------- Rust integer constants
u8_MAX ==
    BigSub(Pow2(8), One)

u16_MAX ==
    BigSub(Pow2(16), One)

u32_MAX ==
    BigSub(Pow2(32), One)

u64_MAX ==
    BigSub(Pow2(64), One)

u128_MAX ==
    BigSub(Pow2(128), One)

i8_MIN ==
    SInt(TRUE, Pow2(7))

i8_MAX ==
    SInt(FALSE, BigSub(Pow2(7), One))

i16_MIN ==
    SInt(TRUE, Pow2(15))

i16_MAX ==
    SInt(FALSE, BigSub(Pow2(15), One))

i32_MIN ==
    SInt(TRUE, Pow2(31))

i32_MAX ==
    SInt(FALSE, BigSub(Pow2(31), One))

i64_MIN ==
    SInt(TRUE, Pow2(63))

i64_MAX ==
    SInt(FALSE, BigSub(Pow2(63), One))

i128_MIN ==
    SInt(TRUE, Pow2(127))

i128_MAX ==
    SInt(FALSE, BigSub(Pow2(127), One))

\* `x as u128` for an i128 x: the 128-bit two's-complement pattern of x
as_u128(x) ==
    IF x.neg THEN BigSub(Pow2(128), x.mag) ELSE BigLowBits(x.mag, 128)

\* ------------------------------------------------------- the width selector
\* variant: strict comparisons, so a rung's maximum moves one rung up
pick_unsigned_type_strict(value) ==
    IF BigLt(value, u8_MAX) THEN "u8"
    ELSE IF BigLt(value, u16_MAX) THEN "u16"
    ELSE IF BigLt(value, u32_MAX) THEN "u32"
    ELSE IF BigLt(value, u64_MAX) THEN "u64"
    ELSE "u128"

\* variant: the designators of the u32 and the u64 branch exchanged
pick_unsigned_type_swapped(value) ==
    IF BigLeq(value, u8_MAX) THEN "u8"
    ELSE IF BigLeq(value, u16_MAX) THEN "u16"
    ELSE IF BigLeq(value, u32_MAX) THEN "u64"
    ELSE IF BigLeq(value, u64_MAX) THEN "u32"
    ELSE "u128"

\* variant: the first branch compares with u16::MAX
pick_unsigned_type_wide_u8(value) ==
    IF BigLeq(value, u16_MAX) THEN "u8"
    ELSE IF BigLeq(value, u16_MAX) THEN "u16"
    ELSE IF BigLeq(value, u32_MAX) THEN "u32"
    ELSE IF BigLeq(value, u64_MAX) THEN "u64"
    ELSE "u128"

pick_unsigned_type(value) ==
    IF BigLeq(value, u8_MAX) THEN "u8"
    ELSE IF BigLeq(value, u16_MAX) THEN "u16"
    ELSE IF BigLeq(value, u32_MAX) THEN "u32"
    ELSE IF BigLeq(value, u64_MAX) THEN "u64"
    ELSE "u128"

\* variant: symmetric ranges, -MAX .. MAX
pick_signed_type_symmetric(value) ==
    IF SLeq(SInt(TRUE, i8_MAX.mag), value) /\ SLeq(value, i8_MAX) THEN "i8"
    ELSE IF SLeq(SInt(TRUE, i16_MAX.mag), value) /\ SLeq(value, i16_MAX) THEN "i16"
    ELSE IF SLeq(SInt(TRUE, i32_MAX.mag), value) /\ SLeq(value, i32_MAX) THEN "i32"
    ELSE IF SLeq(SInt(TRUE, i64_MAX.mag), value) /\ SLeq(value, i64_MAX) THEN "i64"
    ELSE "i128"

\* variant: the i8 branch bounded above by u8::MAX
pick_signed_type_u8_bound(value) ==
    IF SLeq(i8_MIN, value) /\ SLeq(value, SInt(FALSE, u8_MAX)) THEN "i8"
    ELSE IF SLeq(i16_MIN, value) /\ SLeq(value, i16_MAX) THEN "i16"
    ELSE IF SLeq(i32_MIN, value) /\ SLeq(value, i32_MAX) THEN "i32"
    ELSE IF SLeq(i64_MIN, value) /\ SLeq(value, i64_MAX) THEN "i64"
    ELSE "i128"

pick_signed_type(value) ==
    IF SLeq(i8_MIN, value) /\ SLeq(value, i8_MAX) THEN "i8"
    ELSE IF SLeq(i16_MIN, value) /\ SLeq(value, i16_MAX) THEN "i16"
    ELSE IF SLeq(i32_MIN, value) /\ SLeq(value, i32_MAX) THEN "i32"
    ELSE IF SLeq(i64_MIN, value) /\ SLeq(value, i64_MAX) THEN "i64"
    ELSE "i128"

\* variant: zero dispatched to the signed ladder (value <= 0)
pick_int_type_zero_signed(value) ==
    IF SLeq(value, SInt(FALSE, Zero))
    THEN pick_signed_type(value)
    ELSE pick_unsigned_type(as_u128(value))

\* the sign dispatch of auto_sized_int / auto_sized_int_val
pick_int_type(value) ==
    IF SLt(value, SInt(FALSE, Zero))
    THEN pick_signed_type(value)
    ELSE pick_unsigned_type(as_u128(value))

\* ------------------------------------------------------------ macro inputs
\* the exponents k of the rung boundaries 2^k (type widths W and W - 1)
Exps ==
    {7, 8, 15, 16, 31, 32, 63, 64, 127, 128}

Offsets ==
    (0 - Delta) .. Delta

\* magnitudes near zero and around every rung boundary
Mags ==
    {BigOfNat(n) : n \in 0 .. Delta}
    \cup {IF d < 0 THEN BigSub(Pow2(k), BigOfNat(0 - d))
                   ELSE BigAdd(Pow2(k), BigOfNat(d)) : k \in Exps, d \in Offsets}

\* the token handed to a macro: an integer literal, its digits written with or
\* without a leading minus sign, or a token that is no integer literal (1.5)
Literals ==
    [kind : {"int"}, minus : BOOLEAN, digits : Mags]
    \cup {[kind |-> "float", minus |-> FALSE, digits |-> Zero]}

\* parse_macro_input!(input as LitInt): only an integer literal parses
parse_LitInt(input) ==
    [ok |-> input.kind = "int", lit |-> input]

\* LitInt::base10_parse::<u128>: the digits, sign included, through
\* u128::from_str, which takes no minus sign and no value above u128::MAX
base10_parse_u128(l) ==
    IF ~l.minus /\ BigLeq(l.digits, u128_MAX)
    THEN [ok |-> TRUE, v |-> l.digits]
    ELSE [ok |-> FALSE, v |-> Zero]

\* LitInt::base10_parse::<i128>: i128::from_str of the digits
base10_parse_i128(l) ==
    IF l.minus
    THEN IF BigLeq(l.digits, Pow2(127))
         THEN [ok |-> TRUE, v |-> SInt(TRUE, l.digits)]
         ELSE [ok |-> FALSE, v |-> SInt(FALSE, Zero)]
    ELSE IF BigLt(l.digits, Pow2(127))
         THEN [ok |-> TRUE, v |-> SInt(FALSE, l.digits)]
         ELSE [ok |-> FALSE, v |-> SInt(FALSE, Zero)]

\* ----------------------------------------------------------- macro outputs
\* quote! { compile_error!("<name>! only accepts integer literals"); }
compile_error(name) ==
    [kind |-> "compile_error", name |-> name,
     text |-> "only accepts integer literals"]

\* the error parse_macro_input! returns by itself: it names no macro
syn_error ==
    [kind |-> "compile_error", name |-> "", text |-> "expected integer literal"]

\* a bare type designator
type_tokens(ty) ==
    [kind |-> "type", ty |-> ty]

\* quote! { #value as #ty } for a u128 value: a u128-suffixed literal
cast_u128(value, ty) ==
    [kind |-> "cast", ty |-> ty, operand |-> SInt(FALSE, value),
     suffix |-> "u128"]

\* quote! { #value as #ty } for an i128 value: an i128-suffixed literal
cast_i128(value, ty) ==
    [kind |-> "cast", ty |-> ty, operand |-> value, suffix |-> "i128"]

\* one call of a selector
call(fn, arg) ==
    [fn |-> fn, arg |-> arg]

\* the selector calls of the sign dispatch
int_calls(value) ==
    IF SLt(value, SInt(FALSE, Zero))
    THEN <<call("pick_signed_type", value)>>
    ELSE <<call("pick_unsigned_type", SInt(FALSE, as_u128(value)))>>

\* ------------------------------------------------------------- the macros
\* each yields the emitted tokens and the selector calls it made
auto_sized_unsigned(input) ==
    LET lit == parse_LitInt(input)
        value == base10_parse_u128(lit.lit)
    IN  IF ~lit.ok THEN [out |-> syn_error, picked |-> <<>>]
        ELSE IF ~value.ok
        THEN [out |-> compile_error("auto_sized_unsign"), picked |-> <<>>]
        ELSE [out |-> type_tokens(pick_unsigned_type(value.v)),
              picked |-> <<call("pick_unsigned_type", SInt(FALSE, value.v))>>]

auto_sized_unsigned_val(input) ==
    LET lit == parse_LitInt(input)
        value == base10_parse_u128(lit.lit)
    IN  IF ~lit.ok THEN [out |-> syn_error, picked |-> <<>>]
        ELSE IF ~value.ok
        THEN [out |-> compile_error("auto_sized_unsign_val"), picked |-> <<>>]
        ELSE [out |-> cast_u128(value.v, pick_unsigned_type(value.v)),
              picked |-> <<call("pick_unsigned_type", SInt(FALSE, value.v))>>]

\* variant: a failed parse falls back to the default value 0
auto_sized_signed_default(input) ==
    LET lit == parse_LitInt(input)
        value == base10_parse_i128(lit.lit)
    IN  IF ~lit.ok THEN [out |-> syn_error, picked |-> <<>>]
        ELSE IF ~value.ok
        THEN [out |-> type_tokens(pick_signed_type(SInt(FALSE, Zero))),
              picked |-> <<call("pick_signed_type", SInt(FALSE, Zero))>>]
        ELSE [out |-> type_tokens(pick_signed_type(value.v)),
              picked |-> <<call("pick_signed_type", value.v)>>]

auto_sized_signed(input) ==
    LET lit == parse_LitInt(input)
        value == base10_parse_i128(lit.lit)
    IN  IF ~lit.ok THEN [out |-> syn_error, picked |-> <<>>]
        ELSE IF ~value.ok
        THEN [out |-> compile_error("auto_sized_sign"), picked |-> <<>>]
        ELSE [out |-> type_tokens(pick_signed_type(value.v)),
              picked |-> <<call("pick_signed_type", value.v)>>]

auto_sized_signed_val(input) ==
    LET lit == parse_LitInt(input)
        value == base10_parse_i128(lit.lit)
    IN  IF ~lit.ok THEN [out |-> syn_error, picked |-> <<>>]
        ELSE IF ~value.ok
        THEN [out |-> compile_error("auto_sized_sign_val"), picked |-> <<>>]
        ELSE [out |-> cast_i128(value.v, pick_signed_type(value.v)),
              picked |-> <<call("pick_signed_type", value.v)>>]

\* variant: the literal parsed in the u128 domain
auto_sized_int_u128(input) ==
    LET lit == parse_LitInt(input)
        value == base10_parse_u128(lit.lit)
    IN  IF ~lit.ok THEN [out |-> syn_error, picked |-> <<>>]
        ELSE IF ~value.ok
        THEN [out |-> compile_error("auto_sized_int"), picked |-> <<>>]
        ELSE [out |-> type_tokens(pick_unsigned_type(value.v)),
              picked |-> <<call("pick_unsigned_type", SInt(FALSE, value.v))>>]

auto_sized_int(input) ==
    LET lit == parse_LitInt(input)
        value == base10_parse_i128(lit.lit)
    IN  IF ~lit.ok THEN [out |-> syn_error, picked |-> <<>>]
        ELSE IF ~value.ok
        THEN [out |-> compile_error("auto_sized_int"), picked |-> <<>>]
        ELSE [out |-> type_tokens(pick_int_type(value.v)),
              picked |-> int_calls(value.v)]

\* variant: the literal parsed in the u128 domain
auto_sized_int_val_u128(input) ==
    LET lit == parse_LitInt(input)
        value == base10_parse_u128(lit.lit)
    IN  IF ~lit.ok THEN [out |-> syn_error, picked |-> <<>>]
        ELSE IF ~value.ok
        THEN [out |-> compile_error("auto_sized_int_val"), picked |-> <<>>]
        ELSE [out |-> cast_u128(value.v, pick_unsigned_type(value.v)),
              picked |-> <<call("pick_unsigned_type", SInt(FALSE, value.v))>>]

auto_sized_int_val(input) ==
    LET lit == parse_LitInt(input)
        value == base10_parse_i128(lit.lit)
    IN  IF ~lit.ok THEN [out |-> syn_error, picked |-> <<>>]
        ELSE IF ~value.ok
        THEN [out |-> compile_error("auto_sized_int_val"), picked |-> <<>>]
        ELSE [out |-> cast_i128(value.v, pick_int_type(value.v)),
              picked |-> int_calls(value.v)]

\* ------------------------------------------------------------------ state
VARIABLES
    macro,   \* name of the macro invoked last ("" before the first expansion)
    lit,     \* the token it was given
    out,     \* the tokens it emitted
    picked,  \* the selector calls it made
    args,    \* a pair of 128-bit values handed to the selectors directly
    rets     \* selector name -> the pair of types selected for args

mvars ==
    <<macro, lit, out, picked>>

svars ==
    <<args, rets>>

vars ==
    <<macro, lit, out, picked, args, rets>>

NoToken ==
    [kind |-> "none", minus |-> FALSE, digits |-> Zero]

NoOutput ==
    [kind |-> "none"]

\* ------------------------------------------- specification of the macros
Init ==
    /\ macro = ""
    /\ lit = NoToken
    /\ out = NoOutput
    /\ picked = <<>>
    /\ args = <<SInt(FALSE, Zero), SInt(FALSE, Zero)>>
    /\ rets = <<>>

ExpandUnsigned ==
    \E input \in Literals :
        LET r == auto_sized_unsigned(input)
        IN  /\ macro' = "auto_sized_unsigned"
            /\ lit' = input
            /\ out' = r.out
            /\ picked' = r.picked
            /\ UNCHANGED svars

ExpandUnsignedVal ==
    \E input \in Literals :
        LET r == auto_sized_unsigned_val(input)
        IN  /\ macro' = "auto_sized_unsigned_val"
            /\ lit' = input
            /\ out' = r.out
            /\ picked' = r.picked
            /\ UNCHANGED svars

ExpandSigned ==
    \E input \in Literals :
        LET r == auto_sized_signed(input)
        IN  /\ macro' = "auto_sized_signed"
            /\ lit' = input
            /\ out' = r.out
            /\ picked' = r.picked
            /\ UNCHANGED svars

ExpandSignedVal ==
    \E input \in Literals :
        LET r == auto_sized_signed_val(input)
        IN  /\ macro' = "auto_sized_signed_val"
            /\ lit' = input
            /\ out' = r.out
            /\ picked' = r.picked
            /\ UNCHANGED svars

ExpandInt ==
    \E input \in Literals :
        LET r == auto_sized_int(input)
        IN  /\ macro' = "auto_sized_int"
            /\ lit' = input
            /\ out' = r.out
            /\ picked' = r.picked
            /\ UNCHANGED svars

ExpandIntVal ==
    \E input \in Literals :
        LET r == auto_sized_int_val(input)
        IN  /\ macro' = "auto_sized_int_val"
            /\ lit' = input
            /\ out' = r.out
            /\ picked' = r.picked
            /\ UNCHANGED svars

Next ==
    \/ ExpandUnsigned
    \/ ExpandUnsignedVal
    \/ ExpandSigned
    \/ ExpandSignedVal
    \/ ExpandInt
    \/ ExpandIntVal

Spec ==
    Init /\ [][Next]_vars

\* ----------------------------------------- specification of the selectors
\* every value of the u128 or of the i128 domain among the inputs
Values ==
    {v \in {SInt(n, m) : n \in BOOLEAN, m \in Mags} :
        /\ SLeq(i128_MIN, v)
        /\ SLeq(v, SInt(FALSE, u128_MAX))}

is_u128(v) ==
    ~v.neg /\ BigLeq(v.mag, u128_MAX)

is_i128(v) ==
    SLeq(i128_MIN, v) /\ SLeq(v, i128_MAX)

InitSel ==
    /\ macro = ""
    /\ lit = NoToken
    /\ out = NoOutput
    /\ picked = <<>>
    /\ args \in Values \X Values
    /\ rets = <<>>

Select(fn, r) ==
    /\ fn \notin DOMAIN rets
    /\ rets' = rets @@ (fn :> r)
    /\ UNCHANGED <<args, mvars>>

SelectUnsigned ==
    /\ is_u128(args[1]) /\ is_u128(args[2])
    /\ Select("unsigned", <<pick_unsigned_type(args[1].mag),
                            pick_unsigned_type(args[2].mag)>>)

SelectSigned ==
    /\ is_i128(args[1]) /\ is_i128(args[2])
    /\ Select("signed", <<pick_signed_type(args[1]),
                          pick_signed_type(args[2])>>)

SelectInt ==
    /\ is_i128(args[1]) /\ is_i128(args[2])
    /\ Select("int", <<pick_int_type(args[1]), pick_int_type(args[2])>>)

NextSel ==
    \/ SelectUnsigned
    \/ SelectSigned
    \/ SelectInt

SpecSel ==
    InitSel /\ [][NextSel]_vars

\* ======================================================= claim vocabulary
\* the ladder of widths
Ladder ==
    {8, 16, 32, 64, 128}

UnsignedTypes ==
    {"u8", "u16", "u32", "u64", "u128"}

SignedTypes ==
    {"i8", "i16", "i32", "i64", "i128"}

\* the width a type designator names
Bits(ty) ==
    CASE ty \in {"u8", "i8"} -> 8
      [] ty \in {"u16", "i16"} -> 16
      [] ty \in {"u32", "i32"} -> 32
      [] ty \in {"u64", "i64"} -> 64
      [] ty \in {"u128", "i128"} -> 128

\* M <= 2^W - 1
FitsUnsigned(m, w) ==
    BigLeq(m, BigSub(Pow2(w), One))

\* -2^(W-1) <= V <= 2^(W-1) - 1
FitsSigned(v, w) ==
    /\ SLeq(SInt(TRUE, Pow2(w - 1)), v)
    /\ SLeq(v, SInt(FALSE, BigSub(Pow2(w - 1), One)))

\* the rung after W (128 is the last)
NextRung(w) ==
    IF w = 128 THEN 128 ELSE 2 * w

\* the number an integer literal denotes
LitValue(l) ==
    SInt(l.minus, l.digits)

\* Rust's `x as ty` between integer types: the low Bits(ty) bits of the
\* two's-complement pattern of x, read in the signedness of ty
as_ty(x, ty) ==
    LET w == Bits(ty)
        low == BigLowBits(as_u128(x), w)
    IN  IF ty \in SignedTypes /\ BigLeq(Pow2(w - 1), low)
        THEN SInt(TRUE, BigSub(Pow2(w), low))
        ELSE SInt(FALSE, low)

UnsignedMacros ==
    {"auto_sized_unsigned", "auto_sized_unsigned_val"}

SignedMacros ==
    {"auto_sized_signed", "auto_sized_signed_val"}

IntMacros ==
    {"auto_sized_int", "auto_sized_int_val"}

ValMacros ==
    {"auto_sized_unsigned_val", "auto_sized_signed_val", "auto_sized_int_val"}

Rejected ==
    macro # "" /\ out.kind = "compile_error"

Accepted ==
    macro # "" /\ out.kind # "compile_error"

Selected(fn) ==
    fn \in DOMAIN rets

\* ------------------------------------------------------------------- C1
\* C1: for every magnitude M in 0 .. 2^128 - 1 pick_unsigned_type returns an
\* unsigned rung, the smallest W of the ladder with M <= 2^W - 1; M = 0 gives
\* 8, M = 2^W - 1 gives W, M = 2^W gives the next rung, 2^128 - 1 gives 128.
C1_UnsignedSmallestRung ==
    Selected("unsigned") =>
        \A i \in {1, 2} :
            LET m == args[i].mag
                ty == rets["unsigned"][i]
            IN  /\ ty \in UnsignedTypes
                /\ FitsUnsigned(m, Bits(ty))
                /\ \A w \in Ladder : FitsUnsigned(m, w) => Bits(ty) <= w
                /\ m = Zero => Bits(ty) = 8
                /\ m = u128_MAX => Bits(ty) = 128
                /\ \A w \in Ladder :
                    /\ m = BigSub(Pow2(w), One) => Bits(ty) = w
                    /\ (w # 128 /\ m = Pow2(w)) => Bits(ty) = NextRung(w)

C1_Witness ==
    /\ Selected("unsigned")
    /\ args[1].mag = u64_MAX /\ rets["unsigned"][1] = "u64"
    /\ args[2].mag = Pow2(64) /\ rets["unsigned"][2] = "u128"

\* ------------------------------------------------------------------- C2
\* C2: for every V in -2^127 .. 2^127 - 1 pick_signed_type returns a signed
\* rung, the smallest W of the ladder with -2^(W-1) <= V <= 2^(W-1) - 1;
\* 2^(W-1) - 1 and -2^(W-1) give W, 2^(W-1) and -2^(W-1) - 1 the next rung.
C2_SignedSmallestRung ==
    Selected("signed") =>
        \A i \in {1, 2} :
            LET v == args[i]
                ty == rets["signed"][i]
            IN  /\ ty \in SignedTypes
                /\ FitsSigned(v, Bits(ty))
                /\ \A w \in Ladder : FitsSigned(v, w) => Bits(ty) <= w
                /\ \A w \in Ladder :
                    /\ v = SInt(FALSE, BigSub(Pow2(w - 1), One)) => Bits(ty) = w
                    /\ v = SInt(TRUE, Pow2(w - 1)) => Bits(ty) = w
                    /\ (w # 128 /\ v = SInt(FALSE, Pow2(w - 1)))
                        => Bits(ty) = NextRung(w)
                    /\ (w # 128 /\ v = SInt(TRUE, BigAdd(Pow2(w - 1), One)))
                        => Bits(ty) = NextRung(w)

C2_Witness ==
    /\ Selected("signed")
    /\ args[1] = i8_MIN /\ rets["signed"][1] = "i8"
    /\ args[2] = SInt(TRUE, BigAdd(Pow2(7), One)) /\ rets["signed"][2] = "i16"

\* ------------------------------------------------------------------- C4
\* C4 as stated: for the unsigned and for the signed policy, inputs M1 <= M2
\* of the policy's domain are given widths W1 <= W2.
C4_Monotone ==
    \A fn \in {"unsigned", "signed"} :
        (Selected(fn) /\ SLeq(args[1], args[2]))
            => Bits(rets[fn][1]) <= Bits(rets[fn][2])

\* C4 amended: the unsigned policy is monotone on its whole domain; the signed
\* policy is monotone on 0 <= V1 <= V2 and antitone on V1 <= V2 <= 0 (the
\* width grows with the distance from zero).
C4_MonotoneAwayFromZero ==
    /\ (Selected("unsigned") /\ SLeq(args[1], args[2]))
        => Bits(rets["unsigned"][1]) <= Bits(rets["unsigned"][2])
    /\ (Selected("signed") /\ ~args[1].neg /\ SLeq(args[1], args[2]))
        => Bits(rets["signed"][1]) <= Bits(rets["signed"][2])
    /\ (Selected("signed") /\ SLeq(args[1], args[2]) /\ SLeq(args[2], SInt(FALSE, Zero)))
        => Bits(rets["signed"][1]) >= Bits(rets["signed"][2])

C4_Witness ==
    /\ Selected("signed")
    /\ args[1] = i128_MIN /\ rets["signed"][1] = "i128"
    /\ args[2] = SInt(TRUE, One) /\ rets["signed"][2] = "i8"

\* ------------------------------------------------------------------ C10
\* C10: for every V in 0 .. 2^127 - 1 the unsigned width W is at most the
\* signed width, and they differ exactly when 2^(W-1) <= V <= 2^W - 1; the
\* width of the sign dispatch is at most the signed width on all of i128.
C10_UnsignedNeverWider ==
    /\ (Selected("unsigned") /\ Selected("signed")) =>
        \A i \in {1, 2} :
            LET wu == Bits(rets["unsigned"][i])
                ws == Bits(rets["signed"][i])
            IN  /\ wu <= ws
                /\ wu # ws <=>
                    /\ BigLeq(Pow2(wu - 1), args[i].mag)
                    /\ BigLeq(args[i].mag, BigSub(Pow2(wu), One))
    /\ (Selected("int") /\ Selected("signed")) =>
        \A i \in {1, 2} : Bits(rets["int"][i]) <= Bits(rets["signed"][i])

C10_Witness ==
    /\ Selected("unsigned") /\ Selected("signed") /\ Selected("int")
    /\ args[1] = SInt(FALSE, BigAdd(Pow2(7), One))
    /\ rets["unsigned"][1] = "u8" /\ rets["signed"][1] = "i16"
    /\ rets["int"][1] = "u8"
    /\ args[2] = SInt(FALSE, Pow2(16))
    /\ rets["unsigned"][2] = "u32" /\ rets["signed"][2] = "i32"

\* -------------------------------------------------------------------- C3
\* C3: the auto macros give a negative V the signed type the signed policy
\* selects for V and a non-negative V (0 included) the unsigned type the
\* unsigned policy selects for the magnitude V; the tag never crosses.
C3_AutoDispatch ==
    (macro \in IntMacros /\ Accepted) =>
        LET v == LitValue(lit)
        IN  IF SLt(v, SInt(FALSE, Zero))
            THEN /\ out.ty \in SignedTypes
                 /\ Bits(out.ty) = Bits(pick_signed_type(v))
                 /\ FitsSigned(v, Bits(out.ty))
            ELSE /\ out.ty \in UnsignedTypes
                 /\ Bits(out.ty) = Bits(pick_unsigned_type(v.mag))
                 /\ FitsUnsigned(v.mag, Bits(out.ty))

C3_Witness ==
    /\ macro = "auto_sized_int"
    /\ lit.kind = "int" /\ ~lit.minus /\ lit.digits = Zero
    /\ out.kind = "type" /\ out.ty = "u8"

\* -------------------------------------------------------------------- C5
\* the tokens the type macro that corresponds to a value macro emits
TypeMacroOut(name, input) ==
    CASE name = "auto_sized_unsigned_val" -> auto_sized_unsigned(input).out
      [] name = "auto_sized_signed_val" -> auto_sized_signed(input).out
      [] name = "auto_sized_int_val" -> auto_sized_int(input).out

\* C5: a value macro that accepts its literal V emits a cast of V to exactly
\* the type the corresponding type macro selects for V, and evaluating the
\* cast (wrap modulo 2^W, read in the type's signedness) gives V.
C5_CastPreservesValue ==
    (macro \in ValMacros /\ Accepted) =>
        /\ out.kind = "cast"
        /\ [neg |-> out.operand.neg, mag |-> out.operand.mag] = LitValue(lit)
        /\ TypeMacroOut(macro, lit) = type_tokens(out.ty)
        /\ as_ty(out.operand, out.ty) = LitValue(lit)

C5_Witness ==
    /\ macro = "auto_sized_signed_val"
    /\ lit.kind = "int" /\ lit.minus /\ lit.digits = Pow2(15)
    /\ out.kind = "cast" /\ out.ty = "i16"
    /\ as_ty(out.operand, out.ty) = i16_MIN

\* -------------------------------------------------------------------- C6
\* the literal parses in the domain of the macro
Parses(name, input) ==
    /\ parse_LitInt(input).ok
    /\ IF name \in UnsignedMacros
       THEN base10_parse_u128(input).ok
       ELSE base10_parse_i128(input).ok

\* C6: on a literal that does not parse in its domain a macro emits an error
\* only: no selector is called and no type designator or cast is emitted.
C6_ErrorOnly ==
    (macro # "" /\ ~Parses(macro, lit)) =>
        /\ out.kind = "compile_error"
        /\ DOMAIN out = {"kind", "name", "text"}
        /\ picked = <<>>

C6_Witness ==
    /\ macro = "auto_sized_signed"
    /\ lit.kind = "int" /\ ~lit.minus /\ lit.digits = Pow2(127)
    /\ out.kind = "compile_error"
    /\ picked = <<>>

\* -------------------------------------------------------------------- C7
\* C7 as stated: the auto and the signed macros accept exactly the literals
\* with a value in -2^127 .. 2^127 - 1, the unsigned macros exactly those
\* with a value in 0 .. 2^128 - 1.
C7_AcceptedRanges ==
    macro # "" =>
        (Accepted <=>
            /\ lit.kind = "int"
            /\ IF macro \in UnsignedMacros
               THEN /\ SLeq(SInt(FALSE, Zero), LitValue(lit))
                    /\ SLeq(LitValue(lit), SInt(FALSE, u128_MAX))
               ELSE /\ SLeq(i128_MIN, LitValue(lit))
                    /\ SLeq(LitValue(lit), i128_MAX))

\* C7 amended: the auto and the signed macros accept exactly the literals
\* with a value in -2^127 .. 2^127 - 1 (so the auto macros reject 2^127 ..
\* 2^128 - 1, which the unsigned macros accept); the unsigned macros accept
\* exactly the literals written without a minus sign with a value in
\* 0 .. 2^128 - 1: a literal written with a minus sign is rejected, -0 too.
C7_AcceptedLiterals ==
    macro # "" =>
        (Accepted <=>
            /\ lit.kind = "int"
            /\ IF macro \in UnsignedMacros
               THEN /\ ~lit.minus
                    /\ SLeq(LitValue(lit), SInt(FALSE, u128_MAX))
               ELSE /\ SLeq(i128_MIN, LitValue(lit))
                    /\ SLeq(LitValue(lit), i128_MAX))

C7_Witness ==
    /\ macro = "auto_sized_unsigned"
    /\ lit.kind = "int" /\ lit.minus /\ lit.digits = Zero
    /\ Rejected

\* -------------------------------------------------------------------- C8
\* the domain C8 names: u128 for the unsigned macros and for the auto macros
\* on a non-negative literal, i128 otherwise
InNamedDomain(name, input) ==
    /\ input.kind = "int"
    /\ IF \/ name \in UnsignedMacros
          \/ name \in IntMacros /\ ~SLt(LitValue(input), SInt(FALSE, Zero))
       THEN base10_parse_u128(input).ok
       ELSE base10_parse_i128(input).ok

\* C8 as stated: a macro rejects only a literal that does not parse in that
\* domain, so the auto macros reject no non-negative literal that parses as
\* a u128.
C8_RejectsOnlyOutsideNamedDomain ==
    /\ Rejected => ~InNamedDomain(macro, lit)
    /\ (macro \in IntMacros /\ lit.kind = "int" /\ ~lit.minus
            /\ base10_parse_u128(lit).ok) => Accepted

\* the domain the code parses in: u128 for the unsigned macros, i128 for the
\* signed and the auto macros
InParsedDomain(name, input) ==
    /\ input.kind = "int"
    /\ IF name \in UnsignedMacros
       THEN ~input.minus /\ BigLeq(input.digits, u128_MAX)
       ELSE SLeq(i128_MIN, LitValue(input)) /\ SLeq(LitValue(input), i128_MAX)

\* C8 amended: a macro rejects only a literal that does not parse in its
\* domain, u128 for the unsigned macros and i128 for the signed and the auto
\* macros on either sign; so the auto macros accept a non-negative literal
\* that parses as a u128 only up to 2^127 - 1 and reject 2^127 .. 2^128 - 1.
C8_RejectsOnlyOutsideParsedDomain ==
    /\ Rejected => ~InParsedDomain(macro, lit)
    /\ (macro \in IntMacros /\ lit.kind = "int" /\ ~lit.minus
            /\ base10_parse_u128(lit).ok)
        => (Accepted <=> BigLt(lit.digits, Pow2(127)))

C8_Witness ==
    /\ macro = "auto_sized_int_val"
    /\ lit.kind = "int" /\ ~lit.minus /\ lit.digits = u128_MAX
    /\ base10_parse_u128(lit).ok
    /\ Rejected

\* -------------------------------------------------------------------- C9
\* C9: the diagnostic of a rejecting macro names the macro that was invoked.
C9_DiagnosticNamesMacro ==
    Rejected => out.name = macro

====
